---- MODULE Spec2Model ----
(***************************************************************************)
(* Model of package timeout (src/tcp/internal/timeout/timeout.go): a       *)
(* Daemon with one daemon goroutine, a heap of Timeouts ordered by         *)
(* deadline, the Daemon lock d.mu, the client's lock d.locker, the         *)
(* condition variable d.cond and the one-slot channel d.wake.  Client      *)
(* goroutines call AddTimeout, Cancel and Stop.                            *)
(***************************************************************************)
EXTENDS Integers, Sequences, FiniteSets, TLC

\* Bounds of the model.
MaxRecords == 2      \* number of AddTimeout calls over a run
MaxTime == 2         \* the monotonic clock runs over 0..MaxTime

\* The client goroutines.  The critical sections of AddTimeout and Stop are
\* single steps, so what several clients do to the shared state in some
\* order, one client can do in the same order.
Clients == {"c1"}
Daemon == "daemon"
Free == "free"
NoRec == 0
\* The goroutines that can be inside AddTimeout or Stop: the clients, and the
\* daemon goroutine itself when a callback it runs calls one of them.
Callers == Clients \cup {Daemon}

RecIds == 1..MaxRecords
\* Deadlines a client may pass to AddTimeout (the past included).
Deadlines == 0..(MaxTime - 1)

VARIABLES
    now,        \* NowMonotonic(): the monotonic clock
    recs,       \* the Timeout objects allocated so far: [t, cancel]
    timeouts,   \* d.timeouts: the heap array, a sequence of record ids
    stopped,    \* d.stopped
    mu,         \* holder of d.mu
    locker,     \* holder of d.locker (the client's lock)
    wake,       \* number of elements in d.wake (capacity 1)
    notified,   \* the daemon, waiting in d.cond.Wait, has been broadcast to
    pc,         \* position of the daemon goroutine
    to,         \* the daemon's local variable to
    cpc,        \* position of each client goroutine
    crec,       \* each client's local variable to inside AddTimeout
    trace,      \* history: callback entries and exits, in order
    missed,     \* history: <<r1, r2>>, r1 has the earlier deadline and was
                \* pushed after r2 was popped
    late,       \* history: <<r1, r2>>, r1 has the earlier deadline and was
                \* pushed while the daemon slept on r2
    stopReturned \* history: some call to Stop has returned

vars == <<now, recs, timeouts, stopped, mu, locker, wake, notified, pc, to,
          cpc, crec, trace, missed, late, stopReturned>>

----------------------------------------------------------------------------
\* heapTimeouts and container/heap, on a 0-based array held as a sequence.

At(h, i) == h[i + 1]

\* Mutant of Less: the comparison the wrong way round (a max-heap).
LessSwapped(h, i, j) == recs[At(h, j)].t < recs[At(h, i)].t

\* heapTimeouts.Less: (*h)[i].t.Before((*h)[j].t)
Less(h, i, j) == recs[At(h, i)].t < recs[At(h, j)].t

\* heapTimeouts.Swap
Swap(h, i, j) == [h EXCEPT ![i + 1] = h[j + 1], ![j + 1] = h[i + 1]]

\* heap.up: sift element j towards the root
RECURSIVE up(_, _)
up(h, j) ==
    LET i == IF j = 0 THEN 0 ELSE (j - 1) \div 2
    IN  IF i = j \/ ~Less(h, j, i) THEN h ELSE up(Swap(h, i, j), i)

\* heap.down: sift element i towards the leaves of h[0..n-1]
RECURSIVE down(_, _, _)
down(h, i, n) ==
    LET j1 == 2 * i + 1
        j2 == j1 + 1
        j  == IF j2 < n /\ Less(h, j2, j1) THEN j2 ELSE j1
    IN  IF j1 >= n THEN h
        ELSE IF ~Less(h, j, i) THEN h
        ELSE down(Swap(h, i, j), j, n)

\* heap.Push(&d.timeouts, to): heapTimeouts.Push appends, then up
HeapPush(h, r) == up(Append(h, r), Len(h))

\* Mutant of HeapPopRest: heapTimeouts.Pop forgets to shrink the slice.
HeapPopRestKeep(h) == h

\* heap.Pop(&d.timeouts): swap the root to the end, down, then
\* heapTimeouts.Pop removes and returns the last element
HeapPopped(h) == At(Swap(h, 0, Len(h) - 1), Len(h) - 1)
HeapPopRest(h) ==
    LET n == Len(h) - 1
    IN  SubSeq(down(Swap(h, 0, n), 0, n), 1, n)

\* Mutant of peek: the last element of the slice, not the root of the heap.
peekLast(h) == At(h, Len(h) - 1)

\* d.peek(): d.timeouts[0]
peek(h) == At(h, 0)

\* Mutant of WakeSend: nothing is sent on d.wake.
WakeSendNone(w) == w

\* select { case d.wake <- struct{}{}: default: }
WakeSend(w) == 1

\* Mutant of Broadcast: the broadcast is lost.
BroadcastLost(n) == n

\* d.cond.Broadcast(): wakes the daemon if it waits on d.cond
Broadcast(n) == n \/ pc = "cond_wait"

\* Mutant of After: the comparison the wrong way round, to.t.After(now).
AfterSwapped(a, b) == b > a

\* Mutant of After: true also when the two instants are equal.
AfterOrEqual(a, b) == a >= b

\* now.After(to.t)
After(a, b) == a > b

\* An entry of the history: e is "begin" or "end" of record r's callback.
Event(e, r) == <<e, r>>

----------------------------------------------------------------------------
Init ==
    /\ now = 0
    /\ recs = <<>>
    /\ timeouts = <<>>
    /\ stopped = FALSE
    /\ mu = Free
    /\ locker = Free
    /\ wake = 0
    /\ notified = FALSE
    /\ pc = "take_internal"
    /\ to = NoRec
    /\ cpc = [c \in Callers |-> "idle"]
    /\ crec = [c \in Callers |-> NoRec]
    /\ trace = <<>>
    /\ missed = {}
    /\ late = {}
    /\ stopReturned = FALSE

\* The monotonic clock advances.
Tick ==
    /\ now < MaxTime
    /\ now' = now + 1
    /\ UNCHANGED <<recs, timeouts, stopped, mu, locker, wake, notified, pc, to,
                   cpc, crec, trace, missed, late, stopReturned>>

----------------------------------------------------------------------------
\* Client goroutines.

\* A client acquires the lock passed to NewDaemon.
ClientLock(c) ==
    /\ cpc[c] = "idle"
    /\ locker = Free
    /\ locker' = c
    /\ UNCHANGED <<now, recs, timeouts, stopped, mu, wake, notified, pc, to,
                   cpc, crec, trace, missed, late, stopReturned>>

ClientUnlock(c) ==
    /\ cpc[c] = "idle"
    /\ locker = c
    /\ locker' = Free
    /\ UNCHANGED <<now, recs, timeouts, stopped, mu, wake, notified, pc, to,
                   cpc, crec, trace, missed, late, stopReturned>>

\* The handles AddTimeout has returned.
Returned == {r \in 1..Len(recs) : \A c \in Callers : crec[c] # r}

\* The records the daemon has popped from the heap.
Popped == {r \in Returned : \A i \in 1..Len(timeouts) : timeouts[i] # r}

\* Record r1's deadline is before record r2's.
Earlier(r1, r2) == recs[r1].t < recs[r2].t

\* AddTimeout, line 148: to := &Timeout{f: f, t: t}; the caller may or may
\* not hold d.locker.  Next it is at d.mu.Lock(), line 149.
AddTimeoutCall(c, t) ==
    /\ cpc[c] = "idle"
    /\ Len(recs) < MaxRecords
    /\ recs' = Append(recs, [t |-> t, cancel |-> 0])
    /\ crec' = [crec EXCEPT ![c] = Len(recs) + 1]
    /\ cpc' = [cpc EXCEPT ![c] = "add_lock"]
    /\ UNCHANGED <<now, timeouts, stopped, mu, locker, wake, notified, pc, to,
                   trace, missed, late, stopReturned>>

\* AddTimeout, lines 149-161, the critical section under d.mu taken as one
\* step: lock, push, broadcast if the heap was empty, send on d.wake without
\* blocking, unlock, return the handle.
AddTimeoutBody(c) ==
    /\ cpc[c] = "add_lock"
    /\ mu = Free
    /\ timeouts' = HeapPush(timeouts, crec[c])
    /\ notified' = IF Len(timeouts') = 1 THEN Broadcast(notified) ELSE notified
    /\ wake' = WakeSend(wake)
    /\ missed' = missed \cup {<<crec[c], r>> : r \in {p \in Popped : Earlier(crec[c], p)}}
    /\ late' = IF pc = "select" /\ Earlier(crec[c], to)
               THEN late \cup {<<crec[c], to>>} ELSE late
    /\ cpc' = [cpc EXCEPT ![c] = "idle"]
    /\ crec' = [crec EXCEPT ![c] = NoRec]
    /\ UNCHANGED <<now, recs, stopped, mu, locker, pc, to, trace, stopReturned>>

\* Mutant of Cancel: the store is made under d.mu.
CancelUnderMu(c, r) ==
    /\ cpc[c] = "idle"
    /\ locker = c
    /\ mu = Free
    /\ r \in Returned
    /\ recs' = [recs EXCEPT ![r].cancel = 1]
    /\ UNCHANGED <<now, timeouts, stopped, mu, locker, wake, notified, pc, to,
                   cpc, crec, trace, missed, late, stopReturned>>

\* Timeout.Cancel, called with d.locker held: atomic.StoreUint32(&t.cancel, 1)
Cancel(c, r) ==
    /\ cpc[c] = "idle"
    /\ locker = c
    /\ r \in Returned
    /\ recs' = [recs EXCEPT ![r].cancel = 1]
    /\ UNCHANGED <<now, timeouts, stopped, mu, locker, wake, notified, pc, to,
                   cpc, crec, trace, missed, late, stopReturned>>

\* Stop is called; next it is at d.mu.Lock(), line 130.
StopCall(c) ==
    /\ cpc[c] = "idle"
    /\ cpc' = [cpc EXCEPT ![c] = "stop_lock"]
    /\ UNCHANGED <<now, recs, timeouts, stopped, mu, locker, wake, notified,
                   pc, to, crec, trace, missed, late, stopReturned>>

\* Mutant of StopBody: Stop does not send on d.wake.
StopBodyNoWake(c) ==
    /\ cpc[c] = "stop_lock"
    /\ mu = Free
    /\ stopped' = TRUE
    /\ notified' = IF Len(timeouts) = 0 THEN Broadcast(notified) ELSE notified
    /\ stopReturned' = TRUE
    /\ cpc' = [cpc EXCEPT ![c] = "idle"]
    /\ UNCHANGED <<now, recs, timeouts, mu, locker, wake, pc, to, crec, trace,
                   missed, late>>

\* Mutant of StopBody: the send on d.wake has no default case, so Stop
\* waits for room in d.wake.
StopBodyBlockingSend(c) ==
    /\ cpc[c] = "stop_lock"
    /\ mu = Free
    /\ wake = 0
    /\ stopped' = TRUE
    /\ notified' = IF Len(timeouts) = 0 THEN Broadcast(notified) ELSE notified
    /\ wake' = 1
    /\ stopReturned' = TRUE
    /\ cpc' = [cpc EXCEPT ![c] = "idle"]
    /\ UNCHANGED <<now, recs, timeouts, mu, locker, pc, to, crec, trace,
                   missed, late>>

\* Stop, lines 130-141, the critical section under d.mu taken as one step:
\* lock, set stopped, broadcast if the heap is empty, send on d.wake without
\* blocking, unlock, return.
StopBody(c) ==
    /\ cpc[c] = "stop_lock"
    /\ mu = Free
    /\ stopped' = TRUE
    /\ notified' = IF Len(timeouts) = 0 THEN Broadcast(notified) ELSE notified
    /\ wake' = WakeSend(wake)
    /\ stopReturned' = TRUE
    /\ cpc' = [cpc EXCEPT ![c] = "idle"]
    /\ UNCHANGED <<now, recs, timeouts, mu, locker, pc, to, crec, trace,
                   missed, late>>

----------------------------------------------------------------------------
\* The daemon goroutine, Daemon.daemon.

\* Lines 166-174: d.mu.Lock(); return if stopped; if the heap is empty,
\* d.cond.Wait() (which releases d.mu and suspends).
TakeInternal ==
    /\ pc = "take_internal"
    /\ mu = Free
    /\ IF stopped THEN /\ pc' = "terminated"
                       /\ UNCHANGED mu
       ELSE IF Len(timeouts) = 0 THEN /\ pc' = "cond_wait"
                                      /\ UNCHANGED mu
       ELSE /\ pc' = "sleep_loop"
            /\ mu' = Daemon
    /\ notified' = FALSE
    /\ UNCHANGED <<now, recs, timeouts, stopped, locker, wake, to, cpc, crec,
                   trace, missed, late, stopReturned>>

\* Mutant of CondWake: d.stopped is not checked after d.cond.Wait().
CondWakeNoStopCheck ==
    /\ pc = "cond_wait"
    /\ notified
    /\ mu = Free
    /\ notified' = FALSE
    /\ pc' = "sleep_loop"
    /\ mu' = Daemon
    /\ UNCHANGED <<now, recs, timeouts, stopped, locker, wake, to, cpc, crec,
                   trace, missed, late, stopReturned>>

\* Lines 174-178: d.cond.Wait() returns once broadcast to and d.mu is
\* reacquired; return if stopped.
CondWake ==
    /\ pc = "cond_wait"
    /\ notified
    /\ mu = Free
    /\ notified' = FALSE
    /\ IF stopped THEN /\ pc' = "terminated"
                       /\ UNCHANGED mu
       ELSE /\ pc' = "sleep_loop"
            /\ mu' = Daemon
    /\ UNCHANGED <<now, recs, timeouts, stopped, locker, wake, to, cpc, crec,
                   trace, missed, late, stopReturned>>

\* Lines 188-193: to := d.peek(); now := NowMonotonic(); break if
\* now.After(to.t), else d.mu.Unlock() and go to the select.
\* d.peek() on an empty heap indexes out of range and panics.
SleepLoop ==
    /\ pc = "sleep_loop"
    /\ IF Len(timeouts) = 0
       THEN /\ pc' = "panic"
            /\ UNCHANGED <<to, mu>>
       ELSE /\ to' = peek(timeouts)
            /\ IF After(now, recs[to'].t)
               THEN /\ pc' = "pop"
                    /\ UNCHANGED mu
               ELSE /\ pc' = "select"
                    /\ mu' = Free
    /\ UNCHANGED <<now, recs, timeouts, stopped, locker, wake, notified, cpc,
                   crec, trace, missed, late, stopReturned>>

\* Line 195: case <-time.After(to.t.Sub(now))
SelectTimer ==
    /\ pc = "select"
    /\ now >= recs[to].t
    /\ pc' = "relock"
    /\ UNCHANGED <<now, recs, timeouts, stopped, mu, locker, wake, notified,
                   to, cpc, crec, trace, missed, late, stopReturned>>

\* Mutant of SelectWake: after the receive the daemon waits again without
\* going back to the peek.
SelectWakeNoPeek ==
    /\ pc = "select"
    /\ wake = 1
    /\ wake' = 0
    /\ UNCHANGED <<now, recs, timeouts, stopped, mu, locker, notified, pc, to,
                   cpc, crec, trace, missed, late, stopReturned>>

\* Line 196: case <-d.wake
SelectWake ==
    /\ pc = "select"
    /\ wake = 1
    /\ wake' = 0
    /\ pc' = "relock"
    /\ UNCHANGED <<now, recs, timeouts, stopped, mu, locker, notified, to, cpc,
                   crec, trace, missed, late, stopReturned>>

\* Lines 198-202: d.mu.Lock(); return if stopped; else loop to the peek
\* (the inner loop's to goes out of scope).
Relock ==
    /\ pc = "relock"
    /\ mu = Free
    /\ IF stopped THEN /\ pc' = "terminated"
                       /\ UNCHANGED mu
       ELSE /\ pc' = "sleep_loop"
            /\ mu' = Daemon
    /\ to' = NoRec
    /\ UNCHANGED <<now, recs, timeouts, stopped, locker, wake, notified, cpc,
                   crec, trace, missed, late, stopReturned>>

\* Mutant of Pop: d.mu is not released before d.locker.Lock().
PopKeepInternal ==
    /\ pc = "pop"
    /\ Len(timeouts) > 0
    /\ to' = HeapPopped(timeouts)
    /\ timeouts' = HeapPopRest(timeouts)
    /\ pc' = IF recs[to'].cancel = 0 THEN "take_external" ELSE "release_internal"
    /\ UNCHANGED <<now, recs, stopped, mu, locker, wake, notified, cpc, crec,
                   trace, missed, late, stopReturned>>

\* Mutant of Pop: to.cancel is not loaded after the pop.
PopNoCancelCheck ==
    /\ pc = "pop"
    /\ Len(timeouts) > 0
    /\ to' = HeapPopped(timeouts)
    /\ timeouts' = HeapPopRest(timeouts)
    /\ pc' = "take_external"
    /\ mu' = Free
    /\ UNCHANGED <<now, recs, stopped, locker, wake, notified, cpc, crec,
                   trace, missed, late, stopReturned>>

\* Lines 205-211: to := heap.Pop(&d.timeouts); if to.cancel is 0,
\* d.mu.Unlock() and go on to d.locker.Lock(); else fall to line 237.
Pop ==
    /\ pc = "pop"
    /\ IF Len(timeouts) = 0
       THEN /\ pc' = "panic"
            /\ UNCHANGED <<to, mu, timeouts>>
       ELSE /\ to' = HeapPopped(timeouts)
            /\ timeouts' = HeapPopRest(timeouts)
            /\ IF recs[to'].cancel = 0
               THEN /\ pc' = "take_external"
                    /\ mu' = Free
               ELSE /\ pc' = "release_internal"
                    /\ UNCHANGED mu
    /\ UNCHANGED <<now, recs, stopped, locker, wake, notified, cpc, crec,
                   trace, missed, late, stopReturned>>

\* Mutant of TakeExternal: the daemon goes on without d.locker.Lock().
TakeExternalSkip ==
    /\ pc = "take_external"
    /\ pc' = "retake_internal"
    /\ UNCHANGED <<now, recs, timeouts, stopped, mu, locker, wake, notified,
                   to, cpc, crec, trace, missed, late, stopReturned>>

\* Line 212: d.locker.Lock()
TakeExternal ==
    /\ pc = "take_external"
    /\ locker = Free
    /\ locker' = Daemon
    /\ pc' = "retake_internal"
    /\ UNCHANGED <<now, recs, timeouts, stopped, mu, wake, notified, to, cpc,
                   crec, trace, missed, late, stopReturned>>

\* Mutant of RetakeInternal: no check of d.stopped after d.locker is taken.
RetakeInternalNoStop ==
    /\ pc = "retake_internal"
    /\ mu = Free
    /\ pc' = "recheck"
    /\ mu' = Daemon
    /\ UNCHANGED <<now, recs, timeouts, stopped, locker, wake, notified, to,
                   cpc, crec, trace, missed, late, stopReturned>>

\* Lines 213-218: d.mu.Lock(); if stopped, unlock both and return.
RetakeInternal ==
    /\ pc = "retake_internal"
    /\ mu = Free
    /\ IF stopped THEN /\ pc' = "terminated"
                       /\ locker' = Free
                       /\ to' = NoRec
                       /\ UNCHANGED mu
       ELSE /\ pc' = "recheck"
            /\ mu' = Daemon
            /\ UNCHANGED <<locker, to>>
    /\ UNCHANGED <<now, recs, timeouts, stopped, wake, notified, cpc, crec,
                   trace, missed, late, stopReturned>>

\* Mutant of Recheck: to.cancel is not loaded again before to.f().
RecheckNoLoad ==
    /\ pc = "recheck"
    /\ pc' = "fire"
    /\ trace' = Append(trace, Event("begin", to))
    /\ UNCHANGED <<now, recs, timeouts, stopped, mu, locker, wake, notified,
                   to, cpc, crec, missed, late, stopReturned>>

\* Mutant of Recheck: d.mu is unlocked before to.f() is entered.
RecheckUnlocked ==
    /\ pc = "recheck"
    /\ IF recs[to].cancel = 0
       THEN /\ pc' = "fire"
            /\ mu' = Free
            /\ trace' = Append(trace, Event("begin", to))
       ELSE /\ pc' = "release_external"
            /\ UNCHANGED <<mu, trace>>
    /\ UNCHANGED <<now, recs, timeouts, stopped, locker, wake, notified,
                   to, cpc, crec, missed, late, stopReturned>>

\* Lines 230-233: load to.cancel again; if still 0, enter to.f().
Recheck ==
    /\ pc = "recheck"
    /\ IF recs[to].cancel = 0
       THEN /\ pc' = "fire"
            /\ trace' = Append(trace, Event("begin", to))
       ELSE /\ pc' = "release_external"
            /\ UNCHANGED trace
    /\ UNCHANGED <<now, recs, timeouts, stopped, mu, locker, wake, notified,
                   to, cpc, crec, missed, late, stopReturned>>

\* Line 233: to.f() returns, which it does not do while it is inside a call
\* of AddTimeout or Stop.
CallbackReturn ==
    /\ pc = "fire"
    /\ cpc[Daemon] = "idle"
    /\ pc' = "release_external"
    /\ trace' = Append(trace, Event("end", to))
    /\ UNCHANGED <<now, recs, timeouts, stopped, mu, locker, wake, notified,
                   to, cpc, crec, missed, late, stopReturned>>

\* Mutant of ReleaseExternal: d.mu is unlocked first, d.locker is left for
\* the step after.
ReleaseInternalFirst ==
    /\ pc = "release_external"
    /\ mu' = Free
    /\ pc' = "release_internal"
    /\ UNCHANGED <<now, recs, timeouts, stopped, locker, wake, notified, to,
                   cpc, crec, trace, missed, late, stopReturned>>

\* A callback calls d.AddTimeout on the daemon that runs it: line 148, then
\* it is at d.mu.Lock(), line 149, on the daemon's goroutine.
CallbackAddTimeout(t) ==
    /\ pc = "fire"
    /\ AddTimeoutCall(Daemon, t)

\* A callback calls d.Stop on the daemon that runs it; it is at d.mu.Lock(),
\* line 130, on the daemon's goroutine.
CallbackStop ==
    /\ pc = "fire"
    /\ StopCall(Daemon)

\* Line 235: d.locker.Unlock()
ReleaseExternal ==
    /\ pc = "release_external"
    /\ locker' = Free
    /\ pc' = "release_internal"
    /\ UNCHANGED <<now, recs, timeouts, stopped, mu, wake, notified, to, cpc,
                   crec, trace, missed, late, stopReturned>>

\* Line 237: d.mu.Unlock(), and back to the top of the loop (to goes out
\* of scope).
ReleaseInternal ==
    /\ pc = "release_internal"
    /\ mu' = Free
    /\ pc' = "take_internal"
    /\ to' = NoRec
    /\ UNCHANGED <<now, recs, timeouts, stopped, locker, wake, notified, cpc,
                   crec, trace, missed, late, stopReturned>>

----------------------------------------------------------------------------
Next ==
    \/ Tick
    \/ \E c \in Clients : ClientLock(c)
    \/ \E c \in Clients : ClientUnlock(c)
    \/ \E c \in Clients, t \in Deadlines : AddTimeoutCall(c, t)
    \/ \E c \in Callers : AddTimeoutBody(c)
    \/ \E c \in Clients, r \in RecIds : Cancel(c, r)
    \/ \E c \in Clients : StopCall(c)
    \/ \E c \in Callers : StopBody(c)
    \/ TakeInternal
    \/ CondWake
    \/ SleepLoop
    \/ SelectTimer
    \/ SelectWake
    \/ Relock
    \/ Pop
    \/ TakeExternal
    \/ RetakeInternal
    \/ Recheck
    \/ CallbackReturn
    \/ ReleaseExternal
    \/ ReleaseInternal

Spec == Init /\ [][Next]_vars

\* The same with callbacks that may call AddTimeout or Stop on the daemon
\* that runs them.
ReentrantNext ==
    \/ Next
    \/ \E t \in Deadlines : CallbackAddTimeout(t)
    \/ CallbackStop

ReentrantSpec == Init /\ [][ReentrantNext]_vars

\* Scheduling.  The daemon goroutine keeps running (in the model only the
\* daemon holds d.mu across steps, so its own d.mu.Lock() never waits);
\* sync.Mutex hands a lock to a goroutine that keeps waiting for it
\* (starvation mode), so a goroutine at a Lock that is free again and again
\* gets it; clients finish the calls they made and release the lock passed to
\* NewDaemon.
DaemonStep ==
    \/ TakeInternal \/ CondWake \/ SleepLoop \/ SelectTimer \/ SelectWake
    \/ Relock \/ Pop \/ RetakeInternal \/ Recheck \/ CallbackReturn
    \/ ReleaseExternal \/ ReleaseInternal

DaemonFair == WF_vars(DaemonStep) /\ SF_vars(TakeExternal)

ClientFair ==
    \A c \in Clients :
        /\ SF_vars(AddTimeoutBody(c) \/ StopBody(c))
        /\ SF_vars(ClientUnlock(c))

\* Fair scheduling without any assumption on the clock.
FairSpec == Spec /\ DaemonFair /\ ClientFair

\* Fair scheduling and a clock that advances.
LiveSpec == FairSpec /\ WF_vars(Tick)

----------------------------------------------------------------------------
\* Reading the history.

\* The number of times record r's callback has been entered.
Calls(r) == Cardinality({i \in 1..Len(trace) : trace[i] = <<"begin", r>>})

Begun(r) == Calls(r) > 0

\* The number of callback entries so far.
Entries == Cardinality({i \in 1..Len(trace) : trace[i][1] = "begin"})

\* Positions in the history of r's first callback entry and exit.
BeginPos(r) == CHOOSE i \in 1..Len(trace) : trace[i] = <<"begin", r>>
EndPos(r) == CHOOSE i \in 1..Len(trace) : trace[i] = <<"end", r>>
Ended(r) == \E i \in 1..Len(trace) : trace[i] = <<"end", r>>

InHeap(r) == \E i \in 1..Len(timeouts) : timeouts[i] = r

Allocated == 1..Len(recs)

Cancelled(r) == r \in Allocated /\ recs[r].cancel = 1

----------------------------------------------------------------------------
\* C1. At-most-once execution: every record's callback is entered at most
\* once, and a record is in the heap at most once (pushed once, popped at
\* most once), whatever the interleaving of AddTimeout, Cancel, Stop and the
\* daemon.
C1_AtMostOnce ==
    /\ \A r \in Allocated : Calls(r) <= 1
    /\ \A i, j \in 1..Len(timeouts) : timeouts[i] = timeouts[j] => i = j
    /\ \A r \in Allocated : Begun(r) => ~InHeap(r)

\* Every record of the run has fired, each once, and the daemon is back at
\* the top of its loop.
C1_Witness ==
    /\ Len(recs) = MaxRecords
    /\ \A r \in Allocated : Calls(r) = 1 /\ Ended(r)
    /\ pc = "cond_wait"

\* C2. No-fire-after-cancel: a record cancelled (under d.locker) before its
\* callback was entered never has its callback entered afterwards.
C2_NoFireAfterCancel ==
    [][\A r \in Allocated :
          (recs[r].cancel = 1 /\ Calls(r) = 0) => (Calls(r) = 0)']_vars

\* The Cancel landed between the daemon's first load of to.cancel (which read
\* 0) and its acquisition of d.locker, and the second load has discarded the
\* record.
C2_Witness ==
    /\ pc = "release_external"
    /\ recs[to].cancel = 1
    /\ Calls(to) = 0

\* C3. No-fire-before-deadline: while a record's callback runs, and so at the
\* moment it is entered, the monotonic clock is at or after the record's
\* deadline.
C3_NoFireBeforeDeadline ==
    pc = "fire" => now >= recs[to].t

\* A callback with a deadline after the start of the clock runs while another
\* record is in the heap.
C3_Witness ==
    /\ pc = "fire"
    /\ recs[to].t > 0
    /\ Len(timeouts) > 0

\* C4. No callback after stop: once a call to Stop has returned, no callback
\* is entered.
C4_NoCallbackAfterStop ==
    [][stopReturned => Entries' = Entries]_vars

\* Stop returned while the daemon had popped an uncancelled record and not
\* yet fired it, with another record still in the heap; the daemon has
\* terminated without firing either.
C4_Witness ==
    /\ stopReturned
    /\ pc = "terminated"
    /\ \E r \in Popped : recs[r].cancel = 0 /\ Calls(r) = 0 /\ now > recs[r].t
    /\ \E r \in Allocated : InHeap(r) /\ recs[r].cancel = 0

\* C5. After a call to Stop has returned, the daemon never acquires d.locker.
C5_NoExternalAfterStop ==
    [][stopReturned => ~(locker # Daemon /\ locker' = Daemon)]_vars

\* C6. Liveness: under fair scheduling, an advancing clock and clients that
\* release d.locker, a record in the heap is eventually fired, unless it is
\* cancelled or the daemon is stopped.
C6_Liveness ==
    \A r \in RecIds :
        InHeap(r) ~> (Begun(r) \/ Cancelled(r) \/ stopped)

\* Every record of the run has fired uncancelled on a daemon never stopped,
\* one of them with the latest deadline a client can ask for.
C6_Witness ==
    /\ Len(recs) = MaxRecords
    /\ ~stopped
    /\ \A c \in Clients : cpc[c] = "idle"
    /\ \A r \in Allocated : Begun(r) /\ recs[r].cancel = 0
    /\ \E r \in Allocated : recs[r].t = MaxTime - 1

\* C10. Prompt shutdown: once Stop is called, the daemon goroutine eventually
\* returns, under fair scheduling and whatever the clock does.
C10_PromptShutdown ==
    (stopped \/ \E c \in Clients : cpc[c] = "stop_lock") ~> (pc = "terminated")

\* Stop has returned while the daemon sleeps in the select on a deadline the
\* clock has not reached.
C10_Witness ==
    /\ stopReturned
    /\ pc = "select"
    /\ now < recs[to].t

\* C7, as claimed.  Ordering: of two records that both fired uncancelled, the
\* one with the earlier deadline finished its callback before the other's
\* began, whenever the two AddTimeout calls were made.
C7_OrderingAlways ==
    \A r1, r2 \in Allocated :
        (/\ Earlier(r1, r2)
         /\ Begun(r1) /\ Begun(r2)
         /\ recs[r1].cancel = 0 /\ recs[r2].cancel = 0)
        => (Ended(r1) /\ EndPos(r1) < BeginPos(r2))

\* C7, amended.  The same, for the pairs where the record with the earlier
\* deadline was pushed onto the heap before the daemon popped the other.
C7_OrderingIfPushedBeforePop ==
    \A r1, r2 \in Allocated :
        (/\ Earlier(r1, r2)
         /\ Begun(r1) /\ Begun(r2)
         /\ recs[r1].cancel = 0 /\ recs[r2].cancel = 0
         /\ <<r1, r2>> \notin missed)
        => (Ended(r1) /\ EndPos(r1) < BeginPos(r2))

\* The record with the earlier deadline was added second, before the daemon
\* popped the first, and both have fired, in deadline order.
C7_Witness ==
    \E r1, r2 \in Allocated :
        /\ r2 < r1
        /\ Earlier(r1, r2)
        /\ <<r1, r2>> \notin missed
        /\ recs[r1].cancel = 0 /\ recs[r2].cancel = 0
        /\ Begun(r2) /\ Ended(r1) /\ EndPos(r1) < BeginPos(r2)

\* C8. Reorder on late insert: when AddTimeout pushes a record with an
\* earlier deadline while the daemon sleeps in the select on a later one, the
\* daemon's sleep can end at once (d.wake holds an element for as long as the
\* daemon sleeps on a deadline that is not the heap's earliest), and if the
\* later record fires and the earlier one was not cancelled, the earlier
\* one's callback ran first.
C8_ReorderOnLateInsert ==
    /\ (pc = "select" /\ \E r \in Allocated : InHeap(r) /\ Earlier(r, to))
           => wake = 1
    /\ \A p \in late :
           (Begun(p[2]) /\ recs[p[1]].cancel = 0)
           => (Ended(p[1]) /\ EndPos(p[1]) < BeginPos(p[2]))

\* A record pushed while the daemon slept on a later deadline has fired, and
\* the clock has not yet passed that later deadline.
C8_Witness ==
    \E p \in late :
        /\ Begun(p[1])
        /\ now <= recs[p[2]].t
        /\ ~Begun(p[2])
        /\ InHeap(p[2])

\* C9. Lock order and deadlock freedom: the daemon holds d.mu at no point
\* where it waits for d.locker, no client holding d.locker waits for d.mu
\* while the daemon, holding d.mu, waits for d.locker, and the daemon takes
\* d.mu again only with d.locker in hand.
C9_LockOrder ==
    /\ pc = "take_external" => mu # Daemon
    /\ \A c \in Clients :
           ~(/\ pc = "take_external" /\ locker = c
             /\ cpc[c] \in {"add_lock", "stop_lock"} /\ mu = Daemon)
    /\ pc = "retake_internal" => (locker = Daemon /\ mu # Daemon)

\* The daemon waits for d.locker, held by a client that has called
\* AddTimeout and is at d.mu.Lock().
C9_Witness ==
    \E c \in Clients :
        /\ pc = "take_external"
        /\ locker = c
        /\ cpc[c] = "add_lock"
        /\ mu = Free

\* C11. Callback mutual exclusion: while a callback runs the daemon holds
\* both d.locker and d.mu, so no client holds d.locker at that time, and the
\* callbacks do not overlap: in the history every entry of a callback is
\* followed at once by the exit of the same callback.
C11_CallbackExclusion ==
    /\ pc = "fire" => (locker = Daemon /\ mu = Daemon)
    /\ \A i \in 1..Len(trace) :
           trace[i][1] = "begin"
           => IF i = Len(trace) THEN pc = "fire" /\ to = trace[i][2]
              ELSE trace[i + 1] = <<"end", trace[i][2]>>

\* A callback runs while a client that has called AddTimeout waits at
\* d.mu.Lock(), after an earlier callback has run to its end.
C11_Witness ==
    /\ pc = "fire"
    /\ Len(trace) = 3
    /\ \E c \in Clients : cpc[c] \in {"add_lock", "stop_lock"}

C13_InternalReleasedFirst ==
    [][(locker = Daemon /\ locker' # Daemon /\ pc' # "terminated")
          => mu # Daemon]_vars

\* C13, amended.  After the callback or after the second load found the
\* record cancelled, the daemon's next step gives up d.locker with d.mu
\* still held, and d.mu is given up after that, with d.locker no longer
\* held, on the way back to the top of the loop.
C13_ExternalReleasedFirst ==
    [][/\ (locker = Daemon /\ locker' # Daemon /\ pc' # "terminated")
          => (mu = Daemon /\ mu' = Daemon)
       /\ (pc = "release_external" /\ pc' # pc)
          => (locker' # Daemon /\ mu' = Daemon)
       /\ (mu = Daemon /\ mu' # Daemon
              /\ pc \in {"release_external", "release_internal"})
          => (locker # Daemon /\ pc' = "take_internal")]_vars

\* A callback has run to its end and the daemon has given up d.locker, which
\* a client has taken, while the daemon still holds d.mu.
C13_Witness ==
    /\ pc = "release_internal"
    /\ Ended(to)
    /\ mu = Daemon
    /\ locker \in Clients

\* C14, as claimed.  Sleep-loop exit: with the earliest record peeked, the
\* daemon leaves the inner loop for the pop exactly when deadline - now <= 0,
\* so also when now equals the deadline, and goes to the select otherwise.
C14_ExitAtOrAfterDeadline ==
    [][(pc = "sleep_loop" /\ pc' \in {"pop", "select"})
          => (pc' = "pop" <=> recs[peek(timeouts)].t - now <= 0)]_vars

\* C14, amended.  With the earliest record peeked, the daemon leaves the
\* inner loop for the pop exactly when deadline - now < 0; when now equals
\* the deadline, or is before it, it releases d.mu and goes to the select.
C14_ExitStrictlyAfterDeadline ==
    [][(pc = "sleep_loop" /\ pc' \in {"pop", "select"})
          => /\ to' = peek(timeouts)
             /\ pc' = "pop" <=> recs[to'].t - now < 0
             /\ pc' = "select" => (recs[to'].t - now >= 0 /\ mu' = Free)
             /\ pc' = "pop" => mu' = Daemon]_vars

\* The daemon is in the select on a deadline equal to the clock's first
\* instant: it peeked the record when now was equal to its deadline.
C14_Witness ==
    /\ pc = "select"
    /\ recs[to].t = 0
    /\ now = 0

\* C15. Lazy discard of cancelled records: when the record the daemon pops
\* has its cancel flag at 1, the daemon keeps d.mu, does not touch d.locker,
\* enters no callback, and its next step unlocks d.mu and goes back to the
\* top of the loop, again without touching d.locker or entering a callback;
\* the record is out of the heap.
C15_LazyDiscard ==
    [][/\ (/\ pc = "pop" /\ pc' # pc /\ Len(timeouts) > 0
           /\ recs[HeapPopped(timeouts)].cancel = 1)
          => /\ pc' = "release_internal"
             /\ to' = HeapPopped(timeouts)
             /\ \A i \in 1..Len(timeouts') : timeouts'[i] # to'
             /\ mu' = Daemon
             /\ locker' = locker
             /\ trace' = trace
       /\ (pc = "release_internal" /\ pc' # pc)
          => /\ pc' = "take_internal"
             /\ mu' = Free
             /\ locker' = locker
             /\ trace' = trace]_vars

\* The daemon has popped a record cancelled while it was in the heap and is
\* about to unlock d.mu; no callback has ever run and a client holds
\* d.locker.
C15_Witness ==
    /\ pc = "release_internal"
    /\ recs[to].cancel = 1
    /\ trace = <<>>
    /\ locker \in Clients
    /\ Len(timeouts) > 0

\* C16. Single-slot wake sufficiency: d.wake holds at most one element; a
\* caller of AddTimeout or Stop that has d.mu available completes its
\* critical section whatever d.wake holds (the send does not block); and
\* whenever the daemon is in the select with d.wake empty, the daemon is not
\* stopped and the record it sleeps on is in the heap with the smallest
\* deadline of the heap.
C16_WakeSufficient ==
    /\ wake \in {0, 1}
    /\ \A c \in Clients :
           (cpc[c] \in {"add_lock", "stop_lock"} /\ mu = Free)
           => ENABLED (AddTimeoutBody(c) \/ StopBody(c))
    /\ (pc = "select" /\ wake = 0)
           => /\ ~stopped
              /\ InHeap(to)
              /\ \A r \in Allocated : InHeap(r) => recs[to].t <= recs[r].t

\* A record was pushed while the daemon slept on a later deadline; the
\* daemon has taken the element from d.wake, peeked again, and now sleeps on
\* the new earliest deadline with d.wake empty.
C16_Witness ==
    /\ pc = "select"
    /\ wake = 0
    /\ \E p \in late : to = p[1] /\ InHeap(p[2])

\* C17. No sleep past a due timeout: while the daemon is not stopped and the
\* heap holds an uncancelled record whose deadline the clock has passed
\* (now is after the deadline, the condition of line 190), the daemon takes
\* no step into the wait on d.cond or into the select: it goes on to pop.
C17_NoSleepPastDue ==
    [][(\/ pc' = "select" /\ pc # "select"
        \/ pc' = "cond_wait" /\ pc # "cond_wait")
          => ~(/\ ~stopped
               /\ \E r \in Allocated :
                      InHeap(r) /\ recs[r].cancel = 0 /\ now > recs[r].t)]_vars

\* One callback has run to its end, the daemon has gone round its loop, and
\* with another uncancelled record due in the heap it has left the inner
\* loop for the pop.
C17_Witness ==
    /\ pc = "pop"
    /\ Len(trace) = 2
    /\ ~stopped
    /\ InHeap(to)
    /\ recs[to].cancel = 0
    /\ now > recs[to].t

\* C18. Stop is idempotent: d.stopped never goes from true to false; a
\* caller of Stop that has d.mu available completes Stop, on a stopped
\* daemon as on a running one; and Stop on a daemon already stopped leaves
\* d.stopped true and d.wake holding one element, as the first Stop left
\* them, and changes nothing else: not the heap, the records, the locks,
\* the daemon's position, the pending wake-up of d.cond, nor the history of
\* callbacks.
C18_StopIdempotent ==
    /\ [](\A c \in Clients :
             (cpc[c] = "stop_lock" /\ mu = Free) => ENABLED StopBody(c))
    /\ [][stopped => stopped']_vars
    /\ [][\A c \in Clients :
             (StopBody(c) /\ stopped)
             => /\ stopped' /\ wake' = 1
                /\ wake = 1 => UNCHANGED wake
                /\ UNCHANGED <<now, recs, timeouts, stopped, mu, locker,
                                notified, pc, to, crec, trace, missed, late,
                                stopReturned>>]_vars

\* Stop has returned once, the daemon has taken the element from d.wake and
\* returned with records left in the heap, and a second call of Stop is at
\* d.mu.Lock(), which is free.
C18_Witness ==
    /\ stopReturned
    /\ pc = "terminated"
    /\ wake = 0
    /\ Len(timeouts) > 0
    /\ mu = Free
    /\ \E c \in Clients : cpc[c] = "stop_lock"

\* C19. The heap's precondition holds: the daemon is at d.peek() or at
\* heap.Pop only with a record in the heap, so neither ever panics on an
\* empty heap, whatever AddTimeout, Cancel and Stop do around the single
\* d.cond.Wait() and the daemon's release and reacquisition of d.mu.
C19_HeapNonEmpty ==
    /\ pc # "panic"
    /\ pc \in {"sleep_loop", "pop"} => Len(timeouts) > 0

\* The daemon, woken from d.cond.Wait() by the first AddTimeout, has not yet
\* reacquired d.mu, and a second AddTimeout has run in between.
C19_Witness ==
    /\ pc = "cond_wait"
    /\ notified
    /\ mu = Free
    /\ Len(timeouts) = 2

\* C20. The daemon's state is frozen during a callback: from a state in
\* which a callback runs no step changes the heap or d.stopped and no caller
\* inside AddTimeout or Stop gets past d.mu.Lock(); and once a callback has
\* called AddTimeout or Stop on the daemon that runs it, it stays at
\* d.mu.Lock() with both locks held by the daemon: it never returns and no
\* further callback is entered.
C20_FrozenDuringCallback ==
    /\ [](cpc[Daemon] # "idle"
             => (pc = "fire" /\ mu = Daemon /\ locker = Daemon))
    /\ [][pc = "fire"
             => /\ timeouts' = timeouts
                /\ stopped' = stopped
                /\ \A c \in Callers :
                       cpc[c] \in {"add_lock", "stop_lock"}
                       => cpc'[c] = cpc[c]]_vars
    /\ [][cpc[Daemon] # "idle"
             => /\ cpc'[Daemon] = cpc[Daemon]
                /\ pc' = "fire"
                /\ trace' = trace]_vars

\* A callback has called Stop on its own daemon and is at d.mu.Lock(); a
\* client's Stop is at d.mu.Lock() as well, and an uncancelled record whose
\* deadline the clock has passed stays in the heap.
C20_Witness ==
    /\ pc = "fire"
    /\ cpc[Daemon] = "stop_lock"
    /\ \E c \in Clients : cpc[c] = "stop_lock"
    /\ \E r \in Allocated :
           InHeap(r) /\ recs[r].cancel = 0 /\ now > recs[r].t

====
